---------------------------- MODULE Spec2Model ----------------------------
(***************************************************************************)
(* Model of src/index.ts: the multi-threaded spectral-norm benchmark.      *)
(*                                                                         *)
(* The main thread (mainThread) allocates one shared buffer holding the    *)
(* vectors u, v, w, spawns os.cpus().length workers with a row range each, *)
(* and drives 10 iterations of atAu(u,v,w); atAu(v,u,w).  Each atAu makes  *)
(* two work() calls; a work() call posts one message to every worker and   *)
(* resolves when the per-call counter `wait` returns to 0.  Workers handle *)
(* Sab / Au / Atu / Exit messages from their port in FIFO order.           *)
(*                                                                         *)
(* Granularity.  JavaScript runs one handler at a time per thread, but the *)
(* main thread and the workers are separate threads over shared memory.    *)
(* So the synchronous blocks of the main thread are split at every         *)
(* postMessage / spawn (workers run meanwhile), main-side message handlers *)
(* run only while the main thread awaits, and a worker's au/atu loop is    *)
(* split per row (one row = read the whole source vector, write one entry).*)
(*                                                                         *)
(* Values.  Float64 entries are abstracted by residues modulo the prime    *)
(* Modulus: x / a(i,j) is multiplication by the modular inverse and the    *)
(* running sum is taken in the code's order (j ascending).  Rounding is    *)
(* not modelled.  NaN is modelled by a sentinel with JavaScript's rules    *)
(* (arithmetic propagates it, every comparison with it is false).          *)
(***************************************************************************)
EXTENDS Integers, Sequences, FiniteSets, TLC

VARIABLES
    argv,       \* process.argv[2]: [kind |-> "missing" | "text" | "num", val]
    cpus,       \* os.cpus().length
    pc,         \* position of the main thread
    idx,        \* loop index of startWorkers (i) / position of workers.forEach
    iter,       \* loop variable i of mainThread's for loop
    call,       \* which work() call of the loop body is current (0..3)
    buf,        \* the SharedArrayBuffer seen as [u, v, w], each 0..len-1 -> value
    workers,    \* the Set<NodeWorker> of mainThread
    wd,         \* workerData of each worker: [n, start, end]
    inbox,      \* messages posted to each worker, not yet handled (FIFO)
    outbox,     \* messages posted by each worker to the parent, not yet handled
    lsn,        \* once('message') listeners on each worker: the work() call ids
    wait,       \* the `wait` counter of each work() call (one closure per call)
    data,       \* worker: whether `data` is defined
    status,     \* worker: "none" | "idle" | "busy" | "failed" | "exited"
    cur,        \* worker: the Au/Atu message being executed
    row,        \* worker: loop variable i of au / atu
    sabs,       \* worker: number of Sab messages handled so far
    begun,      \* worker: number of Au/Atu messages whose execution has begun
    sent,       \* worker: number of completion messages posted
    written,    \* the entries <<vector, i>> some worker's au / atu has stored
    result,     \* the lines console.log printed, each the pair under the sqrt
    probe       \* a call of a(i, j) on its own: [i, j, out], out empty before it

vars == <<argv, cpus, pc, idx, iter, call, buf, workers, wd, inbox, outbox,
          lsn, wait, data, status, cur, row, sabs, begun, sent, written, result,
          probe>>

mainVars   == <<pc, idx, iter, call, workers, wd, lsn, wait, result>>
workerVars == <<data, status, cur, row, sabs, begun, sent, written>>

\* ---------------------------------------------------------------- bounds
MaxN == 4           \* largest problem size of the protocol runs
MaxCpus == 4        \* largest worker count of the protocol runs
MaxPartN == 6       \* largest problem size of the partition runs
MaxPartCpus == 5    \* largest worker count of the partition runs
MaxPosts == 3       \* messages a driver posts to one worker (worker harness)
MaxLiveN == 2       \* largest problem size of the runs checked for liveness
MaxLiveCpus == 3    \* largest worker count of the runs checked for liveness
MaxProbe == 3       \* indexes 0..MaxProbe, and as many on each side of 2^15

\* ------------------------------------------------------------- constants
Iterations == 10
Modulus == 101
NaN == -1
Base == 32768

WorkerIds == 0 .. (IF MaxCpus > MaxPartCpus THEN MaxCpus ELSE MaxPartCpus) - 1
Fields == {"u", "v", "w"}

\* ------------------------------------------------------- number helpers
IsNaN(x) == x = NaN

\* +process.argv[2]
ToNumber(a) == IF a.kind = "num" THEN a.val ELSE NaN

\* x < y and x > y of JavaScript numbers
Lt(x, y) == ~IsNaN(x) /\ ~IsNaN(y) /\ x < y
Gt(x, y) == ~IsNaN(x) /\ ~IsNaN(y) /\ x > y

Plus(x, y)  == IF IsNaN(x) \/ IsNaN(y) THEN NaN ELSE x + y
Times(x, y) == IF IsNaN(x) \/ IsNaN(y) THEN NaN ELSE x * y

\* Math.ceil(x / c) for c >= 1
CeilDivFloor(x, c) == IF IsNaN(x) THEN NaN ELSE x \div c
CeilDiv(x, c) == IF IsNaN(x) THEN NaN ELSE (x + c - 1) \div c

\* length of new Float64Array(buffer, offset, x): ToIndex(NaN) = 0
VecLen(x) == IF IsNaN(x) THEN 0 ELSE x

n == ToNumber(argv)

\* --------------------------------------------------------- value domain
Inverse == [x \in 1 .. Modulus - 1 |->
               CHOOSE y \in 1 .. Modulus - 1 : (x * y) % Modulus = 1]

\* x / d on the value domain
Div(x, d) == (x * Inverse[d % Modulus]) % Modulus

\* JavaScript numbers too large for a model integer (which ends below 2^31)
\* are held exactly as three limbs <<d0, d1, d2>> of value
\* d0 + d1 * Base + d2 * Base^2, Base = 2^15, d0 and d1 below Base.
Norm(l0, l1, l2) ==
    LET t1 == l1 + (l0 \div Base)
    IN  << l0 % Base, t1 % Base, l2 + (t1 \div Base) >>

\* x * y, exact, for 0 <= x, y < 2^30
Mul(x, y) ==
    LET xl == x % Base  xh == x \div Base
        yl == y % Base  yh == y \div Base
    IN  Norm(xl * yl, xh * yl + xl * yh, xh * yh)

\* ToUint32: the value modulo 2^32 = 4 * Base^2
ToUint32(d) == << d[1], d[2], d[3] % 4 >>

\* d >>> 1 of a ToUint32 result; also the exact half of d
Shr1(d) ==
    << (d[1] \div 2) + (d[2] % 2) * (Base \div 2),
       (d[2] \div 2) + (d[3] % 2) * (Base \div 2),
       d[3] \div 2 >>

\* d + k for a small k >= 0
AddInt(d, k) == Norm(d[1] + k, d[2], d[3])

\* the model integer of a limb number below 2^31
Value(d) == d[1] + d[2] * Base + d[3] * Base * Base

\* a(i, j) as the code computes it: ((i + j) * (i + j + 1) >>> 1) + i + 1
A32NoRow(i, j) == AddInt(Shr1(ToUint32(Mul(i + j, i + j + 1))), 1)
A32(i, j) == AddInt(Shr1(ToUint32(Mul(i + j, i + j + 1))), i + 1)

AOffByOne(i, j) == Value(A32(i, j)) + 1
A(i, j) == Value(A32(i, j))

RECURSIVE AuSum(_, _, _, _, _)
AuSum(src, i, nn, j, t) ==
    IF Lt(j, nn) THEN AuSum(src, i, nn, j + 1, (t + Div(src[j], A(i, j))) % Modulus)
    ELSE t

RECURSIVE AtuSum(_, _, _, _, _)
AtuSum(src, i, nn, j, t) ==
    IF Lt(j, nn) THEN AtuSum(src, i, nn, j + 1, (t + Div(src[j], A(j, i))) % Modulus)
    ELSE t

\* the value au / atu store in v[i]
RowValue(variant, src, i, nn) ==
    IF variant = "Au" THEN AuSum(src, i, nn, 0, 0) ELSE AtuSum(src, i, nn, 0, 0)

\* -------------------------------------------------------------- messages
Msg(variant, vec1, vec2) == [variant |-> variant, vec1 |-> vec1, vec2 |-> vec2]
SabMsg  == Msg("Sab", "-", "-")
ExitMsg == Msg("Exit", "-", "-")
Reply   == Msg("Reply", "-", "-")
IsCompute(m) == m.variant \in {"Au", "Atu"}

\* atAu(u, v, w): the two work() calls it awaits, in order
AtAuInPlace(u, v, w) == << Msg("Au", u, u), Msg("Atu", u, v) >>
AtAuNoTranspose(u, v, w) == << Msg("Au", u, w), Msg("Au", w, v) >>
AtAu(u, v, w) == << Msg("Au", u, w), Msg("Atu", w, v) >>

\* the body of mainThread's for loop
LoopBodySwapped == AtAu("v", "u", "w") \o AtAu("u", "v", "w")
LoopBody == AtAu("u", "v", "w") \o AtAu("v", "u", "w")

CallsPerIter == Len(LoopBody)
NumCalls == Iterations * CallsPerIter
CallId == iter * CallsPerIter + call
CallMsg == LoopBody[call + 1]

\* if (wait === 0) resolve()
ResolvesAlways(wt) == TRUE
ResolvesBelowZero(wt) == wt < 0
Resolves(wt) == wt = 0

\* if (data === undefined) throw
DataUndefinedNever(d) == FALSE
DataUndefined(d) == d = FALSE

\* worker.postMessage({ variant: MessageVariant.Sab, data: sab }) at spawn
SpawnPostsNothing == << >>
SpawnPosts == << SabMsg >>

\* the rows worker p's loops visit: start <= i < end
Rows(p) == IF status[p] = "none" \/ IsNaN(wd[p].start) \/ IsNaN(wd[p].end) THEN {}
           ELSE wd[p].start .. wd[p].end - 1

\* ------------------------------------------------------------------ Init
NoData == [n |-> 0, start |-> 0, end |-> 0]

NoProbe == [i |-> 0, j |-> 0, out |-> << >>]

InitState(argvs, cpuCounts, probes) ==
    /\ probe \in probes
    /\ argv \in argvs
    /\ cpus \in cpuCounts
    /\ pc = "entry"
    /\ idx = 0
    /\ iter = 0
    /\ call = 0
    /\ buf = [f \in Fields |-> << >>]
    /\ workers = {}
    /\ wd = [p \in WorkerIds |-> NoData]
    /\ inbox = [p \in WorkerIds |-> << >>]
    /\ outbox = [p \in WorkerIds |-> << >>]
    /\ lsn = [p \in WorkerIds |-> << >>]
    /\ wait = [c \in 0 .. NumCalls - 1 |-> 0]
    /\ data = [p \in WorkerIds |-> FALSE]
    /\ status = [p \in WorkerIds |-> "none"]
    /\ cur = [p \in WorkerIds |-> SabMsg]
    /\ row = [p \in WorkerIds |-> 0]
    /\ sabs = [p \in WorkerIds |-> 0]
    /\ begun = [p \in WorkerIds |-> 0]
    /\ sent = [p \in WorkerIds |-> 0]
    /\ written = {}
    /\ result = << >>

InitWith(argvs, cpuCounts) == InitState(argvs, cpuCounts, {NoProbe})

NumArgs(max) == [kind : {"num"}, val : 1 .. max]
BadArgs == {[kind |-> "missing", val |-> 0], [kind |-> "text", val |-> 0]}

Init == InitWith(NumArgs(MaxN) \cup BadArgs, 1 .. MaxCpus)

\* ----------------------------------------------------------- main thread
\* the buffer mainThread allocates: u filled with 1, v and w zero
InitialBuf(nn) ==
    [f \in Fields |-> [j \in 0 .. VecLen(nn) - 1 |-> IF f = "u" THEN 1 ELSE 0]]

\* mainThread up to the call of startWorkers
MainThread ==
    /\ pc = "entry"
    /\ buf' = InitialBuf(n)
    /\ pc' = "spawn"
    /\ idx' = 0
    /\ UNCHANGED <<probe, argv, cpus, iter, call, workers, wd, inbox, outbox, lsn, wait,
                   result>>
    /\ UNCHANGED workerVars

\* workerData of the worker created by iteration i of startWorkers
WorkerDataNoClip(i, nn, c) ==
    LET chunk == CeilDiv(nn, c)
        start == Times(i, chunk)
    IN  [n |-> nn, start |-> start, end |-> Plus(start, chunk)]
WorkerData(i, nn, c) ==
    LET chunk == CeilDiv(nn, c)
        start == Times(i, chunk)
        end0  == Plus(start, chunk)
        end   == IF Gt(end0, nn) THEN nn ELSE end0
    IN  [n |-> nn, start |-> start, end |-> end]

\* new NodeWorker(__filename, {workerData}) for slot i, with `posts` posted to it
Spawn(i, posts) ==
    /\ wd' = [wd EXCEPT ![i] = WorkerData(i, n, cpus)]
    /\ status' = [status EXCEPT ![i] = "idle"]
    /\ inbox' = [inbox EXCEPT ![i] = posts]
    /\ workers' = workers \cup {i}

\* one iteration of the loop of startWorkers
StartWorker ==
    /\ pc = "spawn"
    /\ idx < cpus
    /\ Spawn(idx, SpawnPosts)
    /\ IF idx + 1 < cpus
       THEN /\ idx' = idx + 1
            /\ pc' = pc
       ELSE /\ idx' = 0
            /\ pc' = "post"
    /\ UNCHANGED <<probe, argv, cpus, iter, call, buf, outbox, lsn, wait, result>>
    /\ UNCHANGED <<data, cur, row, sabs, begun, sent, written>>

\* one iteration of workers.forEach in work()
WorkPost ==
    /\ pc = "post"
    /\ idx < cpus
    /\ inbox' = [inbox EXCEPT ![idx] = Append(@, CallMsg)]
    /\ lsn' = [lsn EXCEPT ![idx] = Append(@, CallId)]
    /\ wait' = [wait EXCEPT ![CallId] = @ + 1]
    /\ IF idx + 1 < cpus
       THEN /\ idx' = idx + 1
            /\ pc' = pc
       ELSE /\ idx' = 0
            /\ pc' = "await"
    /\ UNCHANGED <<probe, argv, cpus, iter, call, buf, workers, wd, outbox, result>>
    /\ UNCHANGED workerVars

\* how often call id c occurs among the listeners ls
Count(ls, c) == Cardinality({k \in 1 .. Len(ls) : ls[k] = c})

\* a 'message' event of worker p on the main thread (it runs only while the
\* main thread is off the stack: awaiting, or after mainThread returned): every
\* once-listener on p runs (wait--, resolve at 0); resolving the awaited call
\* resumes mainThread
MainOnMessage(p) ==
    /\ pc \in {"await", "done"}
    /\ outbox[p] # << >>
    /\ outbox' = [outbox EXCEPT ![p] = Tail(@)]
    /\ lsn' = [lsn EXCEPT ![p] = << >>]
    /\ wait' = [c \in DOMAIN wait |-> wait[c] - Count(lsn[p], c)]
    /\ IF Count(lsn[p], CallId) > 0 /\ Resolves(wait'[CallId])
       THEN IF call + 1 < CallsPerIter
            THEN /\ call' = call + 1
                 /\ iter' = iter
                 /\ pc' = "post"
            ELSE /\ call' = 0
                 /\ iter' = iter + 1
                 /\ pc' = IF iter + 1 < Iterations THEN "post" ELSE "stop"
       ELSE UNCHANGED <<call, iter, pc>>
    /\ UNCHANGED <<probe, argv, cpus, idx, buf, workers, wd, inbox, result>>
    /\ UNCHANGED workerVars

\* stopWorkers
StopWorkers ==
    /\ pc = "stop"
    /\ inbox' = [p \in WorkerIds |->
                    IF p \in workers THEN Append(inbox[p], ExitMsg) ELSE inbox[p]]
    /\ pc' = "reduce"
    /\ UNCHANGED <<probe, argv, cpus, idx, iter, call, buf, workers, wd, outbox, lsn, wait,
                   result>>
    /\ UNCHANGED workerVars

RECURSIVE Dot(_, _, _, _, _)
Dot(x, y, nn, j, t) ==
    IF Lt(j, nn) THEN Dot(x, y, nn, j + 1, (t + x[j] * y[j]) % Modulus) ELSE t

\* lines 73-82: the pair (vBv, vv) whose quotient's square root is printed
Reduction(b, nn) == [vBv |-> Dot(b.u, b.v, nn, 0, 0), vv |-> Dot(b.v, b.v, nn, 0, 0)]

Reduce ==
    /\ pc = "reduce"
    /\ result' = Append(result, Reduction(buf, n))
    /\ pc' = "done"
    /\ UNCHANGED <<probe, argv, cpus, idx, iter, call, buf, workers, wd, inbox, outbox, lsn,
                   wait>>
    /\ UNCHANGED workerVars

\* ---------------------------------------------------------------- worker
\* parentPort.on('message', ...): the handler up to the call of au / atu
WorkerOnMessageRevived(p) ==
    /\ status[p] \in {"idle", "exited"}
    /\ inbox[p] # << >>
    /\ LET m == Head(inbox[p])
       IN  /\ inbox' = [inbox EXCEPT ![p] = Tail(@)]
           /\ CASE m.variant = "Sab" ->
                     /\ data' = [data EXCEPT ![p] = TRUE]
                     /\ sabs' = [sabs EXCEPT ![p] = @ + 1]
                     /\ UNCHANGED <<status, cur, row, begun>>
                [] IsCompute(m) ->
                     IF DataUndefined(data[p])
                     THEN /\ status' = [status EXCEPT ![p] = "failed"]
                          /\ UNCHANGED <<data, sabs, cur, row, begun>>
                     ELSE /\ status' = [status EXCEPT ![p] = "busy"]
                          /\ cur' = [cur EXCEPT ![p] = m]
                          /\ row' = [row EXCEPT ![p] = wd[p].start]
                          /\ begun' = [begun EXCEPT ![p] = @ + 1]
                          /\ UNCHANGED <<data, sabs>>
                [] OTHER ->
                     /\ status' = [status EXCEPT ![p] = "exited"]
                     /\ UNCHANGED <<data, sabs, cur, row, begun>>
    /\ UNCHANGED <<probe, argv, cpus, buf, outbox, sent, written>>
    /\ UNCHANGED mainVars

WorkerOnMessage(p) ==
    /\ status[p] = "idle"
    /\ inbox[p] # << >>
    /\ LET m == Head(inbox[p])
       IN  /\ inbox' = [inbox EXCEPT ![p] = Tail(@)]
           /\ CASE m.variant = "Sab" ->
                     /\ data' = [data EXCEPT ![p] = TRUE]
                     /\ sabs' = [sabs EXCEPT ![p] = @ + 1]
                     /\ UNCHANGED <<status, cur, row, begun>>
                [] IsCompute(m) ->
                     IF DataUndefined(data[p])
                     THEN /\ status' = [status EXCEPT ![p] = "failed"]
                          /\ UNCHANGED <<data, sabs, cur, row, begun>>
                     ELSE /\ status' = [status EXCEPT ![p] = "busy"]
                          /\ cur' = [cur EXCEPT ![p] = m]
                          /\ row' = [row EXCEPT ![p] = wd[p].start]
                          /\ begun' = [begun EXCEPT ![p] = @ + 1]
                          /\ UNCHANGED <<data, sabs>>
                [] OTHER ->
                     /\ status' = [status EXCEPT ![p] = "exited"]
                     /\ UNCHANGED <<data, sabs, cur, row, begun>>
    /\ UNCHANGED <<probe, argv, cpus, buf, outbox, sent, written>>
    /\ UNCHANGED mainVars

\* one iteration of the outer loop of au / atu
WorkerRowOffByOne(p) ==
    /\ status[p] = "busy"
    /\ Lt(row[p], wd[p].end)
    /\ buf' = [buf EXCEPT ![cur[p].vec2][row[p] + 1] =
                  RowValue(cur[p].variant, buf[cur[p].vec1], row[p], wd[p].n)]
    /\ row' = [row EXCEPT ![p] = @ + 1]
    /\ written' = written \cup {<<cur[p].vec2, row[p] + 1>>}
    /\ UNCHANGED <<probe, argv, cpus, inbox, outbox, data, status, cur, sabs, begun, sent>>
    /\ UNCHANGED mainVars
WorkerRow(p) ==
    /\ status[p] = "busy"
    /\ Lt(row[p], wd[p].end)
    /\ buf' = [buf EXCEPT ![cur[p].vec2][row[p]] =
                  RowValue(cur[p].variant, buf[cur[p].vec1], row[p], wd[p].n)]
    /\ row' = [row EXCEPT ![p] = @ + 1]
    /\ written' = written \cup {<<cur[p].vec2, row[p]>>}
    /\ UNCHANGED <<probe, argv, cpus, inbox, outbox, data, status, cur, sabs, begun, sent>>
    /\ UNCHANGED mainVars

\* the loop of au / atu is over: parentPort.postMessage({})
WorkerDoneSilentIfEmpty(p) ==
    /\ status[p] = "busy"
    /\ ~Lt(row[p], wd[p].end)
    /\ outbox' = [outbox EXCEPT ![p] = IF Lt(wd[p].start, wd[p].end)
                                       THEN Append(@, Reply) ELSE @]
    /\ status' = [status EXCEPT ![p] = "idle"]
    /\ sent' = [sent EXCEPT ![p] = IF Lt(wd[p].start, wd[p].end) THEN @ + 1 ELSE @]
    /\ UNCHANGED <<probe, argv, cpus, buf, inbox, data, cur, row, sabs, begun,
                   written>>
    /\ UNCHANGED mainVars
WorkerDone(p) ==
    /\ status[p] = "busy"
    /\ ~Lt(row[p], wd[p].end)
    /\ outbox' = [outbox EXCEPT ![p] = Append(@, Reply)]
    /\ status' = [status EXCEPT ![p] = "idle"]
    /\ sent' = [sent EXCEPT ![p] = @ + 1]
    /\ UNCHANGED <<probe, argv, cpus, buf, inbox, data, cur, row, sabs, begun,
                   written>>
    /\ UNCHANGED mainVars

\* --------------------------------------------------------- specifications
Next ==
    \/ MainThread
    \/ StartWorker
    \/ WorkPost
    \/ \E p \in WorkerIds : MainOnMessage(p)
    \/ StopWorkers
    \/ Reduce
    \/ \E p \in WorkerIds : WorkerOnMessage(p)
    \/ \E p \in WorkerIds : WorkerRow(p)
    \/ \E p \in WorkerIds : WorkerDone(p)

Spec == Init /\ [][Next]_vars

\* ------------------------------------------------ partition specification
\* startWorkers alone, over a wider range of sizes and worker counts
InitPart == InitWith(NumArgs(MaxPartN), 1 .. MaxPartCpus)

NextPart ==
    \/ MainThread
    \/ StartWorker
    \/ \E p \in WorkerIds : WorkerOnMessage(p)

SpecPart == InitPart /\ [][NextPart]_vars

\* --------------------------------------------------- worker specification
\* workerThread alone, under a parent that creates one worker (any slot of the
\* partition) and posts it any messages in any order
DriverMsgs == {SabMsg, ExitMsg} \cup {LoopBody[k] : k \in 1 .. Len(LoopBody)}

Handled(p) == sabs[p] + begun[p] + (IF status[p] \in {"failed", "exited"} THEN 1 ELSE 0)

DriverSpawn(i) ==
    /\ pc = "spawn"
    /\ i < cpus
    /\ Spawn(i, << >>)
    /\ pc' = "driver"
    /\ UNCHANGED <<probe, argv, cpus, idx, iter, call, buf, outbox, lsn, wait, result>>
    /\ UNCHANGED <<data, cur, row, sabs, begun, sent, written>>

DriverPost(p, m) ==
    /\ pc = "driver"
    /\ p \in workers
    /\ Len(inbox[p]) + Handled(p) < MaxPosts
    /\ inbox' = [inbox EXCEPT ![p] = Append(@, m)]
    /\ UNCHANGED <<probe, argv, cpus, buf, outbox>>
    /\ UNCHANGED mainVars
    /\ UNCHANGED workerVars

InitWorker == InitWith(NumArgs(MaxN), 1 .. MaxCpus)

NextWorker ==
    \/ MainThread
    \/ \E i \in WorkerIds : DriverSpawn(i)
    \/ \E p \in WorkerIds, m \in DriverMsgs : DriverPost(p, m)
    \/ \E p \in WorkerIds : WorkerOnMessage(p)
    \/ \E p \in WorkerIds : WorkerRow(p)
    \/ \E p \in WorkerIds : WorkerDone(p)

SpecWorker == InitWorker /\ [][NextWorker]_vars

\* ======================================================================
\* Claims
\* ======================================================================
Slots == 0 .. cpus - 1

\* the Au/Atu messages worker q has been sent and has not yet answered
Pending(q) ==
    (IF status[q] = "busy" THEN {cur[q]} ELSE {})
        \cup {inbox[q][k] : k \in {j \in 1 .. Len(inbox[q]) : IsCompute(inbox[q][j])}}

\* C1: total barrier.  A worker that has begun its (k+1)-th work unit implies
\* that every worker (of the cpus workers of the run) has already posted the
\* completion message of its k-th unit.
C1_TotalBarrier ==
    \A p \in Slots, q \in Slots : begun[p] <= sent[q] + 1

\* C1 witness: a worker is executing a later unit while another worker has
\* just posted the completion of the unit before and not begun this one.
C1_Witness ==
    \E p \in Slots, q \in Slots :
        /\ p # q
        /\ status[p] = "busy"
        /\ begun[p] >= 2
        /\ sent[q] = begun[p] - 1
        /\ begun[q] = begun[p] - 1

\* C2: no data race on the shared buffer.  While worker p executes a unit
\* (reading all of its source vector), no other worker has an unanswered unit
\* writing that vector; the rows two workers write are disjoint; and every
\* unanswered unit has different source and destination vectors.
C2_NoDataRace ==
    /\ \A p \in WorkerIds, q \in WorkerIds :
          (p # q /\ status[p] = "busy") =>
              \A m \in Pending(q) : m.vec2 # cur[p].vec1
    /\ \A p \in WorkerIds, q \in WorkerIds :
          p # q => Rows(p) \cap Rows(q) = {}
    /\ \A p \in WorkerIds : \A m \in Pending(p) : m.vec1 # m.vec2

\* C2 witness: two workers with non-empty row ranges execute a unit at once.
C2_Witness ==
    \E p \in WorkerIds, q \in WorkerIds :
        /\ p # q
        /\ status[p] = "busy" /\ status[q] = "busy"
        /\ Rows(p) # {} /\ Rows(q) # {}
        /\ cur[p] = cur[q]

\* all workers of startWorkers have been created
AllStarted == pc = "post" /\ ~IsNaN(n)

RowsPartition ==
    /\ \A p \in Slots, q \in Slots : p # q => Rows(p) \cap Rows(q) = {}
    /\ UNION {Rows(p) : p \in Slots} = 0 .. n - 1
    /\ \A p \in Slots, q \in Slots :
          p < q => \A i \in Rows(p), j \in Rows(q) : i < j

\* C3 as stated: once startWorkers has run (n > 0), the ranges are pairwise
\* disjoint, ascending, cover exactly [0, n), and are contiguous: they begin
\* at 0, each range ends where the next begins, and the last one ends at n.
C3_PartitionContiguous_Orig ==
    AllStarted =>
        /\ RowsPartition
        /\ wd[0].start = 0
        /\ wd[cpus - 1].end = n
        /\ \A k \in 0 .. cpus - 2 : wd[k].end = wd[k + 1].start
        /\ \A k \in 0 .. cpus - 2 : wd[k].start <= wd[k + 1].start

\* C3 amended: once startWorkers has run (n > 0), the row sets
\* {i : start_k <= i < end_k} are pairwise disjoint, ascending and cover
\* exactly [0, n); the first range begins at 0, the last ends at n, and a
\* range ends where the next begins whenever the next begins at or below n;
\* a range that begins above n ends at n and is empty.
C3_PartitionExact ==
    AllStarted =>
        /\ RowsPartition
        /\ wd[0].start = 0
        /\ wd[cpus - 1].end = n
        /\ \A k \in 0 .. cpus - 2 : wd[k].start <= wd[k + 1].start
        /\ \A k \in 0 .. cpus - 2 :
              wd[k + 1].start <= n => wd[k].end = wd[k + 1].start
        /\ \A k \in Slots :
              wd[k].start > n => (wd[k].end = n /\ Rows(k) = {})

\* C3 witness: startWorkers has run and gave some worker a start above n.
C3_Witness ==
    /\ AllStarted
    /\ \E k \in Slots : wd[k].start > n

SabsIn(q) == Cardinality({k \in 1 .. Len(q) : q[k] = SabMsg})

\* C4: in a run of mainThread every created worker is sent exactly one Sab
\* message, handles it at most once and before anything else (an unhandled
\* Sab is the first message of the port), has handled it when it begins an
\* Au/Atu unit or exits, and never throws.
C4_SabOnceFirst ==
    \A p \in workers :
        /\ sabs[p] + SabsIn(inbox[p]) = 1
        /\ sabs[p] = 0 => (inbox[p] # << >> /\ Head(inbox[p]) = SabMsg)
        /\ (begun[p] > 0 \/ status[p] = "exited") => (sabs[p] = 1 /\ data[p])
        /\ status[p] # "failed"

\* C4 witness: a worker executes a unit, having handled Sab once.
C4_Witness ==
    \E p \in workers : status[p] = "busy" /\ begun[p] > 0 /\ sabs[p] = 1

\* worker p, idle with `data` undefined, handles an Au/Atu message in this step
HandlesComputeUninitialized(p) ==
    /\ status[p] = "idle"
    /\ inbox[p] # << >>
    /\ IsCompute(Head(inbox[p]))
    /\ ~data[p]
    /\ inbox'[p] = Tail(inbox[p])

\* C5: a worker that handles Au or Atu while `data` is undefined throws: the
\* step writes nothing to the buffer and posts no completion, the worker is
\* failed, and a failed worker never again writes, posts or handles.
C5_UninitializedThrows ==
    [][\A p \in WorkerIds :
          /\ HandlesComputeUninitialized(p) =>
                /\ status'[p] = "failed"
                /\ buf' = buf
                /\ outbox' = outbox
                /\ begun'[p] = begun[p]
          /\ status[p] = "failed" =>
                /\ status'[p] = "failed"
                /\ outbox'[p] = outbox[p]
                /\ buf' = buf
                /\ Len(inbox'[p]) >= Len(inbox[p])]_vars

\* C5 witness: a worker has thrown on a compute message received before Sab,
\* with further messages still queued behind it.
C5_Witness ==
    \E p \in workers :
        /\ status[p] = "failed"
        /\ ~data[p]
        /\ inbox[p] # << >>
\* some work unit has been posted to some worker
Dispatched ==
    \/ \E c \in DOMAIN wait : wait[c] # 0
    \/ \E p \in WorkerIds : begun[p] > 0 \/ \E k \in 1 .. Len(inbox[p]) : IsCompute(inbox[p][k])

\* C6 as stated: when n is missing or non-numeric (n is NaN), no worker is
\* ever created, no work unit is dispatched and no result line is emitted.
C6_InvalidInputFailsAtStartup ==
    IsNaN(n) =>
        /\ workers = {}
        /\ \A p \in WorkerIds : status[p] = "none" /\ inbox[p] = << >>
        /\ ~Dispatched
        /\ result = << >>

\* the k-th work unit (k = 0, 1, ...) of the order the design prescribes
ExpectedUnit(k) ==
    CASE k % 4 = 0 -> Msg("Au", "u", "w")
      [] k % 4 = 1 -> Msg("Atu", "w", "v")
      [] k % 4 = 2 -> Msg("Au", "v", "w")
      [] k % 4 = 3 -> Msg("Atu", "w", "u")

\* the Au/Atu messages of a port, in order
ComputeOnly(q) == SelectSeq(q, IsCompute)

ExitPosted(p) ==
    status[p] = "exited" \/ \E k \in 1 .. Len(inbox[p]) : inbox[p][k] = ExitMsg

\* C7: dispatch order.  The k-th unit every worker is sent is
\* forward(u->w), transpose(w->v), forward(v->w), transpose(w->u) for
\* k = 0, 1, 2, 3 mod 4; a unit is posted only when every earlier unit has
\* been answered by every worker and the answers have been received; Exit is
\* posted only when all 4 * 10 units have been answered by and received
\* from every worker; and the reduction runs only after Exit was posted to
\* every worker.
C7_DispatchOrder ==
    /\ \A p \in workers :
          /\ status[p] = "busy" => cur[p] = ExpectedUnit(begun[p] - 1)
          /\ \A k \in 1 .. Len(ComputeOnly(inbox[p])) :
                ComputeOnly(inbox[p])[k] = ExpectedUnit(begun[p] + k - 1)
          /\ begun[p] + Len(ComputeOnly(inbox[p])) <= 4 * 10
    /\ (pc = "post" /\ idx = 0) =>
          \A p \in Slots :
              /\ sent[p] = CallId
              /\ outbox[p] = << >>
              /\ ComputeOnly(inbox[p]) = << >>
    /\ \A p \in Slots :
          (ExitPosted(p) \/ pc \in {"stop", "reduce", "done"}) =>
              \A q \in Slots : sent[q] = 4 * 10 /\ outbox[q] = << >> /\ lsn[q] = << >>
    /\ result # << >> => (pc = "done" /\ \A p \in Slots : ExitPosted(p))

\* C7 witness: the result was printed after some worker completed all 40 units.
C7_Witness ==
    /\ pc = "done"
    /\ result # << >>
    /\ cpus >= 2
    /\ \A p \in Slots : sent[p] = 40

\* a whole unit computed over the full range [0, nn) from one source vector
Full(variant, src, nn) == [i \in 0 .. VecLen(nn) - 1 |-> RowValue(variant, src, i, nn)]

\* B x = A^T (A x)
ApplyB(x, nn) == Full("Atu", Full("Au", x, nn), nn)

ReductionTime == pc \in {"reduce", "done"} /\ ~IsNaN(n)

\* C8 as stated: when the reduction runs, v is the result of applying B to
\* the u of the buffer.
C8_ReductionPair_Orig ==
    ReductionTime => buf.v = ApplyB(buf.u, n)

\* C8 amended: when the reduction runs, u is the result of applying B to the
\* v of the buffer (v is the iterate before, u the iterate after), and the
\* printed pair is vBv = sum u[i]*v[i], vv = sum v[i]*v[i] over that pair.
C8_ReductionPair ==
    /\ ReductionTime => buf.u = ApplyB(buf.v, n)
    /\ (pc = "done" /\ ~IsNaN(n)) =>
          result = << [vBv |-> Dot(ApplyB(buf.v, n), buf.v, n, 0, 0),
                       vv  |-> Dot(buf.v, buf.v, n, 0, 0)] >>

\* C8 witness: the reduction has run on vectors of length at least 2.
C8_Witness ==
    pc = "done" /\ ~IsNaN(n) /\ n >= 2 /\ result # << >>

\* b has a value (evaluating it here keeps the recursions below shallow)
Evaluated(b) == b = b

\* units k, k+1, ... of the run, each executed by one worker over [0, nn)
RECURSIVE SingleRun(_, _, _)
SingleRun(b, k, nn) ==
    IF k >= NumCalls \/ ~Evaluated(b) THEN b
    ELSE LET m == LoopBody[(k % CallsPerIter) + 1]
         IN  SingleRun([b EXCEPT ![m.vec2] = Full(m.variant, b[m.vec1], nn)],
                       k + 1, nn)

SingleFinal == [nn \in 1 .. MaxN |-> SingleRun(InitialBuf(nn), 0, nn)]

\* every worker of the run has posted the completion of the current unit
UnitComplete ==
    /\ pc = "await"
    /\ ~IsNaN(n)
    /\ \A p \in Slots : sent[p] = CallId + 1

\* C9: partitioned execution equals single-worker execution.  When every
\* worker has completed a unit, its destination vector is, entry for entry,
\* the unit applied over the full range [0, n) to its source vector; and
\* after the last unit the whole buffer equals that of a run in which every
\* unit is executed by a single worker over [0, n).
C9_PartitionedEqualsSingle ==
    /\ UnitComplete =>
          buf[CallMsg.vec2] = Full(CallMsg.variant, buf[CallMsg.vec1], n)
    /\ (pc \in {"stop", "reduce", "done"} /\ ~IsNaN(n)) => buf = SingleFinal[n]

\* C9 witness: a unit has been completed by at least two workers that each
\* wrote rows of it.
C9_Witness ==
    /\ UnitComplete
    /\ \E p \in Slots, q \in Slots : p # q /\ Rows(p) # {} /\ Rows(q) # {}

\* worker p's rows i, i+1, ... of unit m written into b, each reading b as it is
RECURSIVE SerialRows(_, _, _, _, _)
SerialRows(b, m, i, d, nn) ==
    IF Evaluated(b) /\ Lt(i, d.end)
    THEN SerialRows([b EXCEPT ![m.vec2][i] = RowValue(m.variant, b[m.vec1], i, nn)],
                    m, i + 1, d, nn)
    ELSE b

\* unit m executed by workers p, p+1, ..., c-1 one after the other
RECURSIVE SerialUnit(_, _, _, _, _)
SerialUnit(b, m, p, nn, c) ==
    IF p >= c \/ ~Evaluated(b) THEN b
    ELSE LET d == WorkerData(p, nn, c)
         IN  SerialUnit(SerialRows(b, m, d.start, d, nn), m, p + 1, nn, c)

\* the run in which nothing overlaps: units k, ..., last-1 in order, the
\* workers of each unit in order
RECURSIVE SerialRun(_, _, _, _, _)
SerialRun(b, k, last, nn, c) ==
    IF k >= last \/ ~Evaluated(b) THEN b
    ELSE SerialRun(SerialUnit(b, LoopBody[(k % CallsPerIter) + 1], 0, nn, c),
                   k + 1, last, nn, c)

\* the buffer of that run after its first k units
SerialAfter(k) == SerialRun(InitialBuf(n), 0, k, n, cpus)

\* C10: determinism.  For given n and worker count, every interleaving has,
\* each time the coordinator resumes to dispatch unit k, the buffer of the
\* one run in which the workers execute each unit one after the other, and
\* ends with that run's buffer and prints that run's result.
C10_Deterministic ==
    /\ (pc = "post" /\ idx = 0) => buf = SerialAfter(CallId)
    /\ pc \in {"stop", "reduce", "done"} => buf = SerialAfter(NumCalls)
    /\ pc = "done" => result = << Reduction(SerialAfter(NumCalls), n) >>

\* C10 witness: a run of at least two workers with rows to write has ended.
C10_Witness ==
    /\ pc = "done"
    /\ \E p \in Slots, q \in Slots : p # q /\ Rows(p) # {} /\ Rows(q) # {}

\* ------------------------------------------------- liveness specification
\* runs of mainThread on a valid n in which some thread takes a step as long
\* as one can: threads keep running and posted messages are delivered
InitLive == InitWith(NumArgs(MaxLiveN), 1 .. MaxLiveCpus)

SpecLive == InitLive /\ [][Next]_vars /\ WF_vars(Next)

\* the run is over: all units answered, result printed, workers exited
Completed ==
    /\ pc = "done"
    /\ Len(result) = 1
    /\ \A p \in Slots :
          /\ status[p] = "exited"
          /\ sent[p] = NumCalls
          /\ inbox[p] = << >> /\ outbox[p] = << >>
    /\ \A c \in DOMAIN wait : wait[c] = 0

\* C11: termination.  For valid n > 0 and any worker count (also more
\* workers than rows), under fair scheduling the run eventually and for good
\* reaches the state where all units are answered, the result is printed and
\* every worker has exited (so the coordinator leaves every await: it never
\* waits forever on a barrier).
C11_Completes == <>[]Completed

\* C11 witness: a run with more workers than rows has completed.
C11_Witness ==
    Completed /\ cpus > n

\* the one-entry vector [1]
One == [j \in {0} |-> 1]

\* C12: n = 1.  a(0,0) = 1; from its allocation on u is [1]; whenever all
\* workers have completed a unit, the vector it wrote is [1]; at the end
\* u = v = [1], and the printed pair has vBv = vv = 1, so the result is 1.
C12_SizeOne ==
    n = 1 =>
        /\ A(0, 0) = 1
        /\ pc # "entry" => buf.u = One
        /\ UnitComplete => buf[CallMsg.vec2] = One
        /\ pc \in {"stop", "reduce", "done"} => (buf.u = One /\ buf.v = One)
        /\ pc = "done" => result = << [vBv |-> 1, vv |-> 1] >>

\* C12 witness: a run on n = 1 with several workers has printed its result.
C12_Witness ==
    n = 1 /\ cpus >= 2 /\ pc = "done" /\ result # << >>

\* ---------------------------------------------------- specification of a
\* a(i, j) on its own, for indexes near 0 and on both sides of 2^15 (where
\* i + j reaches 2^16)
ProbeIdx ==
    (0 .. MaxProbe)
        \cup {Base - 1 - k : k \in 0 .. MaxProbe}
        \cup {Base + k : k \in 0 .. MaxProbe}

InitA ==
    InitState(NumArgs(1), {1}, [i : ProbeIdx, j : ProbeIdx, out : {<< >>}])

ApplyA ==
    /\ probe.out = << >>
    /\ probe' = [probe EXCEPT !.out = A32(probe.i, probe.j)]
    /\ UNCHANGED <<argv, cpus, buf, inbox, outbox>>
    /\ UNCHANGED mainVars
    /\ UNCHANGED workerVars

SpecA == InitA /\ [][ApplyA]_vars

Applied == probe.out # << >>

\* triangular(i + j) + i + 1, exact
ExactA(i, j) == AddInt(Shr1(Mul(i + j, i + j + 1)), i + 1)

Positive(d) == d[1] > 0 \/ d[2] > 0 \/ d[3] > 0

\* C13 as stated: a is symmetric and positive.
C13_Symmetric_Orig ==
    Applied =>
        /\ probe.out = A32(probe.j, probe.i)
        /\ Positive(probe.out)

\* C13 amended: a is positive and not symmetric: a(i, j) and a(j, i) differ
\* by i - j (a(i, j) + j = a(j, i) + i), so they are equal only for i = j.
C13_PositiveSkew ==
    Applied =>
        /\ Positive(probe.out)
        /\ AddInt(probe.out, probe.j) = AddInt(A32(probe.j, probe.i), probe.i)
        /\ (probe.out = A32(probe.j, probe.i)) <=> (probe.i = probe.j)

\* C13 witness: a has been applied off the diagonal.
C13_Witness ==
    Applied /\ probe.i # probe.j

\* C14 as stated: a(i, j) is triangular(i + j) + i + 1 exactly; the 32-bit
\* conversion of >>> 1 never changes (i + j) * (i + j + 1).
C14_NoOverflow ==
    Applied =>
        /\ ToUint32(Mul(probe.i + probe.j, probe.i + probe.j + 1))
              = Mul(probe.i + probe.j, probe.i + probe.j + 1)
        /\ probe.out = ExactA(probe.i, probe.j)

\* ------------------------------------------------ remaining protocol claims
\* worker p is inside au / atu with a row still to compute: computing it reads
\* every entry of the source vector
Reading(p) == status[p] = "busy" /\ Lt(row[p], wd[p].end)

Indexes == 0 .. VecLen(n) - 1

WrittenAll(f) == \A j \in Indexes : <<f, j>> \in written

WrittenNone(f) == \A j \in Indexes : <<f, j>> \notin written

\* C15: initialisation before use.  From its allocation until a worker first
\* stores into it, u is all 1; a worker that reads its source vector finds
\* every entry of it stored by some worker before (or, for u, the untouched
\* initial fill of 1); and when the reduction reads u and v every entry of
\* both has been stored by some worker.
C15_WrittenBeforeRead ==
    ~IsNaN(n) =>
        /\ (pc # "entry" /\ WrittenNone("u")) => buf.u = [j \in Indexes |-> 1]
        /\ \A p \in WorkerIds :
              Reading(p) =>
                  \/ WrittenAll(cur[p].vec1)
                  \/ /\ cur[p].vec1 = "u"
                     /\ WrittenNone("u")
                     /\ buf.u = [j \in Indexes |-> 1]
        /\ pc = "reduce" => (WrittenAll("u") /\ WrittenAll("v"))

\* C15 witness: in a run of several workers on several rows, a worker reads w
\* for the first time (its second unit, transpose(w->v)).
C15_Witness ==
    /\ n >= 2 /\ cpus >= 2
    /\ \E p \in Slots : Reading(p) /\ begun[p] = 2 /\ cur[p].vec1 = "w"

\* worker p takes the message at the head of its port in this step
Handles(p) == inbox[p] # << >> /\ inbox'[p] = Tail(inbox[p])

\* C16: exit.  A worker becomes exited only in a step in which it is idle and
\* takes an Exit message from its port (never while it executes a unit, and an
\* idle worker that takes Exit does exit); that step stores nothing and posts
\* nothing; and an exited worker stays exited: it takes no message from its
\* port, posts nothing, and stores nothing into the buffer.
C16_ExitFromReadyTerminal ==
    [][\A p \in WorkerIds :
          /\ (status[p] # "exited" /\ status'[p] = "exited") =>
                /\ status[p] = "idle"
                /\ Handles(p)
                /\ Head(inbox[p]) = ExitMsg
                /\ buf' = buf /\ written' = written
                /\ outbox' = outbox
          /\ (status[p] = "idle" /\ Handles(p) /\ Head(inbox[p]) = ExitMsg) =>
                status'[p] = "exited"
          /\ status[p] = "exited" =>
                /\ status'[p] = "exited"
                /\ Len(inbox'[p]) >= Len(inbox[p])
                /\ outbox'[p] = outbox[p]
                /\ sent'[p] = sent[p] /\ begun'[p] = begun[p] /\ sabs'[p] = sabs[p]
                /\ row'[p] = row[p]
                /\ (buf' # buf \/ written' # written) =>
                      \E q \in WorkerIds \ {p} :
                          status[q] = "busy" /\ row'[q] = row[q] + 1]_vars

\* C16 witness: an initialized worker has exited, and a message posted to it
\* behind Exit stays in its port.
C16_Witness ==
    \E p \in workers :
        /\ status[p] = "exited"
        /\ inbox[p] # << >>
        /\ data[p]

\* completion signals of worker p the coordinator has received
Received(p) == sent[p] - Len(outbox[p])

\* Au/Atu messages posted to worker p so far
Posted(p) == begun[p] + Len(ComputeOnly(inbox[p]))

\* the Au/Atu message posted to worker p last (p has been posted one)
LastPosted(p) ==
    IF ComputeOnly(inbox[p]) # << >>
    THEN ComputeOnly(inbox[p])[Len(ComputeOnly(inbox[p]))]
    ELSE cur[p]

\* workers whose listener of the current call has not run yet
Listening == {p \in Slots : lsn[p] # << >>}

\* the state of the current work() call
WorkCallState ==
    /\ \A p \in Slots : lsn[p] \in {<< >>, << CallId >>}
    /\ \A c \in DOMAIN wait :
          wait[c] = IF c = CallId THEN Cardinality(Listening) ELSE 0
    /\ pc = "post" =>
          \A p \in Slots :
              /\ Received(p) = CallId
              /\ Posted(p) = IF p < idx THEN CallId + 1 ELSE CallId
              /\ lsn[p] # << >> <=> p < idx
    /\ pc = "await" =>
          /\ \A p \in Slots :
                /\ Posted(p) = CallId + 1
                /\ LastPosted(p) = CallMsg
                /\ Received(p) \in {CallId, CallId + 1}
                /\ lsn[p] # << >> <=> Received(p) = CallId
          /\ \E p \in Slots : Received(p) = CallId
    /\ pc \in {"stop", "reduce", "done"} =>
          /\ CallId = NumCalls
          /\ \A p \in Slots : Received(p) = NumCalls /\ lsn[p] = << >>

\* the steps of the current work() call
WorkCallStep ==
    /\ CallId' # CallId =>
          /\ pc = "await"
          /\ CallId' = CallId + 1
          /\ pc' \in {"post", "stop"}
          /\ wait'[CallId] = 0
          /\ \A p \in Slots : Received(p)' = CallId + 1
    /\ (pc = "await" /\ pc' # "await") => CallId' = CallId + 1
    /\ pc = "post" => (pc' \in {"post", "await"} /\ CallId' = CallId)
    /\ \A c \in DOMAIN wait : wait'[c] # wait[c] => c = CallId

\* C17: work().  One call posts the same unit to every worker; the call
\* resolves (the coordinator leaves its await and the call number advances by
\* one) exactly once, in the step in which the last of the P completion
\* signals of that unit is received: never during the posting loop, never
\* with a signal missing, and never later; and a signal only ever decrements
\* the counter of the current call, whose listeners are the only ones
\* registered.
C17_WorkResolvesOnce ==
    []WorkCallState /\ [][WorkCallStep]_vars

\* C17 witness: with several workers, a call has resolved and the next call
\* is about to be posted.
C17_Witness ==
    /\ cpus >= 2
    /\ pc = "post" /\ idx = 0
    /\ CallId >= 1
    /\ \A p \in Slots : Received(p) = CallId

\* ceil(nn / c) as the least integer k with k * c >= nn
Ceil(nn, c) == CHOOSE k \in 0 .. nn : k * c >= nn /\ (k - 1) * c < nn

RowCount(k) == Cardinality(Rows(k))

\* C18 as stated: every worker but the last gets exactly ceil(n / P) rows,
\* and every range has 0 <= start <= end <= n.
C18_ChunksLastClipped_Orig ==
    AllStarted =>
        /\ \A k \in 0 .. cpus - 2 :
              /\ wd[k].end - wd[k].start = Ceil(n, cpus)
              /\ RowCount(k) = Ceil(n, cpus)
        /\ \A k \in Slots :
              0 <= wd[k].start /\ wd[k].start <= wd[k].end /\ wd[k].end <= n

\* C18 amended: with chunk = ceil(n / P), worker k has start_k = k * chunk
\* and end_k = min(start_k + chunk, n): every end is clipped, not only the
\* last.  A worker whose whole chunk lies in [0, n) gets exactly chunk rows,
\* a worker whose chunk crosses n gets the n - start_k rows left, and a worker
\* whose chunk begins at or above n gets none; 0 <= start_k and end_k <= n
\* always, and start_k <= end_k exactly when start_k <= n (otherwise
\* end_k = n < start_k).
C18_ChunksAllClipped ==
    AllStarted =>
        \A k \in Slots :
            LET chunk == Ceil(n, cpus)
            IN  /\ wd[k].start = k * chunk
                /\ wd[k].end = IF (k + 1) * chunk > n THEN n ELSE (k + 1) * chunk
                /\ 0 <= wd[k].start /\ wd[k].end <= n
                /\ RowCount(k) = IF (k + 1) * chunk <= n THEN chunk
                                 ELSE IF k * chunk < n THEN n - k * chunk
                                 ELSE 0
                /\ wd[k].start <= wd[k].end <=> wd[k].start <= n

\* C18 witness: startWorkers has run and a worker that is not the last got
\* some rows but fewer than a chunk.
C18_Witness ==
    /\ AllStarted
    /\ \E k \in 0 .. cpus - 2 : RowCount(k) > 0 /\ RowCount(k) < Ceil(n, cpus)

\* worker p completes a row of au / atu in this step
Stores(p) == status[p] = "busy" /\ row'[p] = row[p] + 1

\* C19: frame.  A step in which a worker completes a row i stores dst[i]
\* only, with i in the worker's own range and dst different from src: every
\* other entry of dst, all of src and all of the third vector keep their
\* values; the buffer changes in no other step except the allocation and fill
\* by mainThread at its start, and no later step of the coordinator changes
\* it.
C19_Frame ==
    [][/\ \A p \in WorkerIds :
             Stores(p) =>
                 /\ row[p] \in Rows(p)
                 /\ cur[p].vec1 # cur[p].vec2
                 /\ written' = written \cup {<<cur[p].vec2, row[p]>>}
                 /\ \A f \in Fields :
                       /\ DOMAIN buf'[f] = DOMAIN buf[f]
                       /\ \A j \in DOMAIN buf[f] :
                             (f # cur[p].vec2 \/ j # row[p]) =>
                                 buf'[f][j] = buf[f][j]
       /\ (buf' # buf \/ written' # written) =>
             \/ pc = "entry" /\ written' = written
             \/ \E p \in WorkerIds : Stores(p)
       /\ (pc # "entry" /\ mainVars' # mainVars) =>
             (buf' = buf /\ written' = written)]_vars

\* C19 witness: in a run of several workers on several rows, a worker with
\* more than one row has stored one and has another to go.
C19_Witness ==
    /\ n >= 2 /\ cpus >= 2
    /\ \E p \in Slots :
          status[p] = "busy" /\ row[p] > wd[p].start /\ Lt(row[p], wd[p].end)

\* C20: replies of a worker.  An initialized worker that takes an Au or Atu
\* message begins the unit, and it leaves the unit only by posting exactly
\* one completion message, whether or not its range has rows; its port to the
\* parent grows in no other step, so at any time it has posted one completion
\* per unit begun, less the one it is executing; taking Sab or Exit posts
\* nothing.
C20_OneReplyPerUnit ==
    /\ [](\A p \in WorkerIds :
             sent[p] = begun[p] - (IF status[p] = "busy" THEN 1 ELSE 0))
    /\ [][\A p \in WorkerIds :
             /\ (Handles(p) /\ status[p] = "idle" /\ IsCompute(Head(inbox[p]))
                     /\ data[p]) =>
                   /\ status'[p] = "busy"
                   /\ begun'[p] = begun[p] + 1
                   /\ outbox'[p] = outbox[p]
             /\ (status[p] = "busy" /\ status'[p] # "busy") =>
                   /\ status'[p] = "idle"
                   /\ outbox'[p] = Append(outbox[p], Reply)
                   /\ sent'[p] = sent[p] + 1
             /\ (Len(outbox'[p]) > Len(outbox[p]) \/ sent'[p] # sent[p]) =>
                   /\ status[p] = "busy"
                   /\ ~Lt(row[p], wd[p].end)
                   /\ outbox'[p] = Append(outbox[p], Reply)
                   /\ sent'[p] = sent[p] + 1
             /\ (Handles(p) /\ status[p] = "idle"
                     /\ Head(inbox[p]) \in {SabMsg, ExitMsg}) =>
                   /\ outbox'[p] = outbox[p]
                   /\ sent'[p] = sent[p]
                   /\ status'[p] # "busy"]_vars

\* C20 witness: a worker whose range is inverted (start > end) has posted the
\* completion of a unit.
C20_Witness ==
    \E p \in workers :
        /\ wd[p].start > wd[p].end
        /\ Rows(p) = {}
        /\ sent[p] >= 1
        /\ outbox[p] # << >>

=============================================================================
